---- MODULE Spec2Model ----
(***************************************************************************)
(* aloha_backend: the paginated query DTOs (src/dto), the transactional    *)
(* data-access operations (src/mappers) and the route handlers that call   *)
(* them (src/routes), over a relational store.                             *)
(*                                                                         *)
(* Option<T> is a sequence of length at most one: None is <<>> and         *)
(* Some(x) is <<x>>.  A usize is represented by the signed integer with    *)
(* the same 64-bit pattern, so that wrapping +, - and * are the integer    *)
(* operations (within the bounds below) and the unsigned order is          *)
(* UsizeLess.  An `as` cast between i64 and usize keeps the bit pattern.   *)
(***************************************************************************)
EXTENDS Integers, Sequences, FiniteSets, TLC

VARIABLES
    arg,          \* inputs of the DTO function under evaluation
    out,          \* its result: <<>> before the call, <<r>> after
    users,        \* committed rows of table users
    user_groups,  \* committed rows of table user_groups
    tweets,       \* committed rows of table tweet
    user_permissions, \* committed rows of table user_permissions
    pc,           \* per request task: position in the handler
    req,          \* per request task: the route and its arguments
    tx,           \* per request task: the transaction handle it holds
    ret,          \* per request task: the mapper's result
    pre,          \* per request task: the committed rows when the request arrived
    session       \* per client: the entries of its session

vars == <<arg, out, users, user_groups, tweets, user_permissions, pc, req, tx, ret, pre, session>>

storeVars == <<users, user_groups, tweets, user_permissions>>
taskVars == <<pc, req, tx, ret, pre, session>>
dtoVars == <<arg, out>>

(***************************************************************************)
(* Bounds                                                                  *)
(***************************************************************************)
MaxPage == 3
MaxSize == 3
MaxTotal == 12
MaxUserId == 2
MaxGroupId == 1
MaxTweetId == 2
MaxPermissionId == 2

None == <<>>
Some(x) == <<x>>

\* Option::unwrap_or
UnwrapOr(o, d) == IF o = <<>> THEN d ELSE o[1]

OptOf(S) == {None} \cup {Some(x) : x \in S}

(***************************************************************************)
(* src/dto/query.rs                                                        *)
(***************************************************************************)
DefaultPage == 1
DefaultSize == 10

\* DtoQuery::default_query
default_query ==
    [page |-> Some(1), size |-> Some(10), sort |-> None, order |-> None,
     filter |-> None]

\* DtoQuery::page
page(q) == UnwrapOr(q.page, DefaultPage)

\* DtoQuery::size
size(q) == UnwrapOr(q.size, DefaultSize)

\* unsigned comparison of two usize values given by their bit patterns
UsizeLess(a, b) == IF (a < 0) = (b < 0) THEN a < b ELSE b < 0

offset_NoMinusOne(q) ==
    {[panic |-> FALSE, value |-> page(q) * size(q)]}
\* DtoQuery::offset: the outcomes of (self.page() - 1) * self.size().  With
\* page() = 0 the subtraction overflows: a build with overflow checks panics,
\* a build without them wraps to usize::MAX and the product wraps again.
offset(q) ==
    IF page(q) >= 1
    THEN {[panic |-> FALSE, value |-> (page(q) - 1) * size(q)]}
    ELSE {[panic |-> TRUE, value |-> 0],
          [panic |-> FALSE, value |-> (0 - 1) * size(q)]}

(***************************************************************************)
(* src/dto/pagination.rs                                                   *)
(***************************************************************************)
Link_DefaultSize(p, s) ==
    [base |-> "application.base_url", port |-> "application.port",
     path |-> "routes.user_groups", page |-> p, size |-> 10]
\* the format! of a link: base_url ':' port '/' routes.user_groups
\* '?page=' p '&size=' s
Link(p, s) ==
    [base |-> "application.base_url", port |-> "application.port",
     path |-> "routes.user_groups", page |-> p, size |-> s]

PaginationNew_NextInclusive(p, s, t) ==
    LET pg == UnwrapOr(p, 1)
        sz == UnwrapOr(s, 10)
        total == UnwrapOr(t, 0)
    IN  [page |-> Some(pg), size |-> Some(sz), total |-> Some(total),
         prev_page |-> IF UsizeLess(1, pg) THEN Some(Link(pg - 1, sz)) ELSE None,
         next_page |-> IF ~UsizeLess(total, pg * sz)
                       THEN Some(Link(pg + 1, sz)) ELSE None]
\* Pagination::new
PaginationNew(p, s, t) ==
    LET pg == UnwrapOr(p, 1)
        sz == UnwrapOr(s, 10)
        total == UnwrapOr(t, 0)          \* `as usize`: same bits
    IN  [page |-> Some(pg), size |-> Some(sz),
         total |-> Some(total),          \* `as i64`: same bits
         prev_page |-> IF UsizeLess(1, pg) THEN Some(Link(pg - 1, sz)) ELSE None,
         next_page |-> IF UsizeLess(pg * sz, total)
                       THEN Some(Link(pg + 1, sz)) ELSE None]

\* Pagination::default_p: String::new() is the empty string, and
\* Option::from of a String is Some of it
default_p ==
    [page |-> Some(1), size |-> Some(10), total |-> Some(0),
     prev_page |-> Some(""), next_page |-> Some("")]

(***************************************************************************)
(* Evaluation of the DTO functions on every input within the bounds        *)
(***************************************************************************)
Pages == OptOf(0..MaxPage)
Sizes == OptOf(0..MaxSize)
\* the totals Pagination::new accepts (an Option<i64>): the counts a list
\* mapper hands it, unset, and negative ones, which only another caller of
\* the public function can pass
Totals == OptOf((0 - 2)..MaxTotal)

DtoInit ==
    /\ arg \in [page : Pages, size : Sizes, total : Totals]
    /\ out = None

EvalOffset ==
    /\ out = None
    /\ \E o \in offset([default_query EXCEPT !.page = arg.page,
                                             !.size = arg.size]) :
           out' = Some([fn |-> "offset", panic |-> o.panic, value |-> o.value])
    /\ UNCHANGED <<arg, storeVars, taskVars>>

EvalPaginationNew ==
    /\ out = None
    /\ out' = Some([fn |-> "Pagination::new",
                    value |-> PaginationNew(arg.page, arg.size, arg.total)])
    /\ UNCHANGED <<arg, storeVars, taskVars>>

EvalDefaultP ==
    /\ out = None
    /\ out' = Some([fn |-> "Pagination::default_p", value |-> default_p])
    /\ UNCHANGED <<arg, storeVars, taskVars>>
(***************************************************************************)
(* The relational store.  A table is the set of its committed rows; the   *)
(* primary key of users and of user_groups is id.                          *)
(***************************************************************************)
UserIds == 1..MaxUserId
GroupIds == 1..MaxGroupId
Usernames == {"alice", "bob"}
Passwords == {"pw1", "pw2"}
GroupNames == {"Admins", "Staff"}
\* the instants a created_at can hold
Times == {1, 2}

\* models/user.rs: struct User
User == [id : UserIds, username : Usernames, password_hash : Passwords,
         created_at : OptOf(Times), user_group_id : OptOf(GroupIds)]

\* models/user_group.rs: struct UserGroup
UserGroup == [id : GroupIds, group_name : GroupNames]

\* the rows of a table with primary key id, in ORDER BY id
RECURSIVE OrderById(_)
OrderById(rows) ==
    IF rows = {} THEN <<>>
    ELSE LET r == CHOOSE x \in rows : \A y \in rows : x.id <= y.id
         IN  <<r>> \o OrderById(rows \ {r})

LimitOffset_NoOffset(s, limit, off) ==
    [i \in 1..(IF Len(s) < limit THEN Len(s) ELSE limit) |-> s[i]]
\* LIMIT limit OFFSET off applied to an ordered result
LimitOffset(s, limit, off) ==
    [i \in 1..(IF Len(s) - off < 0 THEN 0
               ELSE IF Len(s) - off < limit THEN Len(s) - off ELSE limit)
        |-> s[off + i]]

\* the constraints of table users: primary key id, unique username, and
\* a user_group_id that is set names a row of user_groups
UsersViolation(rows, groups, u) ==
    \/ \E r \in rows : r.id = u.id \/ r.username = u.username
    \/ /\ u.user_group_id # None
       /\ ~\E g \in groups : g.id = u.user_group_id[1]

\* the other side of that reference: a user names the group with this id,
\* which the store therefore keeps
UserGroupReferenced(usrs, id) == \E u \in usrs : u.user_group_id = Some(id)

\* the constraint of table user_groups: primary key id
UserGroupsViolation(rows, g) == \E r \in rows : r.id = g.id

Ok(v) == [status |-> "ok", value |-> v, cause |-> "none"]
Err(c) == [status |-> "err", value |-> None, cause |-> c]
Running == [status |-> "running", value |-> None, cause |-> "none"]

(***************************************************************************)
(* src/mappers/user.rs: what each statement does to the rows it sees.      *)
(* A result is the statement's outcome and the table after it.             *)
(***************************************************************************)
StmtOk(v, rows) == [ok |-> TRUE, value |-> v, cause |-> "none", rows |-> rows]
StmtErr(c, rows) == [ok |-> FALSE, value |-> None, cause |-> c, rows |-> rows]

insert_user_stmt_Upsert(rows, groups, u, now) ==
    LET row == [u EXCEPT !.created_at = Some(now)]
    IN  StmtOk(row, {r \in rows : r.id # u.id /\ r.username # u.username}
                        \cup {row})
\* INSERT INTO users (id, username, password_hash, user_group_id) ...
\* RETURNING, fetch_one: created_at is not among the columns the statement
\* sets, the row gets the instant `now` of the store
insert_user_stmt(rows, groups, u, now) ==
    LET row == [u EXCEPT !.created_at = Some(now)]
    IN  IF UsersViolation(rows, groups, row) THEN StmtErr("constraint", rows)
        ELSE StmtOk(row, rows \cup {row})

\* DELETE FROM users WHERE id = $1 RETURNING, fetch_one
delete_user_by_id_stmt(rows, id) ==
    IF \E r \in rows : r.id = id
    THEN LET r == CHOOSE x \in rows : x.id = id
         IN  StmtOk(r, rows \ {r})
    ELSE StmtErr("RowNotFound", rows)

\* UPDATE users SET username, password_hash, user_group_id WHERE id = $4
\* RETURNING, fetch_one
update_user_stmt(rows, groups, u) ==
    IF \E r \in rows : r.id = u.id
    THEN LET old == CHOOSE x \in rows : x.id = u.id
             new == [old EXCEPT !.username = u.username,
                                !.password_hash = u.password_hash,
                                !.user_group_id = u.user_group_id]
         IN  IF UsersViolation(rows \ {old}, groups, new)
             THEN StmtErr("constraint", rows)
             ELSE StmtOk(new, (rows \ {old}) \cup {new})
    ELSE StmtErr("RowNotFound", rows)

delete_users_by_ids_stmt_AllOrNothing(rows, ids) ==
    IF \A id \in ids : \E r \in rows : r.id = id
    THEN StmtOk({r \in rows : r.id \in ids}, {r \in rows : r.id \notin ids})
    ELSE StmtErr("RowNotFound", rows)
\* DELETE FROM users WHERE id = ANY($1) RETURNING, fetch_all
delete_users_by_ids_stmt(rows, ids) ==
    LET gone == {r \in rows : r.id \in ids}
    IN  StmtOk(gone, rows \ gone)

(***************************************************************************)
(* src/mappers/user_group.rs                                               *)
(***************************************************************************)
\* insert into user_groups (id, group_name) ... returning, fetch_one
insert_user_group_stmt(rows, g) ==
    IF UserGroupsViolation(rows, g) THEN StmtErr("constraint", rows)
    ELSE StmtOk(g, rows \cup {g})

\* delete from user_groups where id=$1 returning, fetch_one; usrs are the
\* rows of users, whose references the store checks
delete_user_group_by_id_stmt(rows, usrs, id) ==
    IF \E r \in rows : r.id = id
    THEN LET r == CHOOSE x \in rows : x.id = id
         IN  IF UserGroupReferenced(usrs, id) THEN StmtErr("constraint", rows)
             ELSE StmtOk(r, rows \ {r})
    ELSE StmtErr("RowNotFound", rows)

\* update user_groups set group_name = $1 where id = $2 returning, fetch_one
update_user_group_stmt(rows, g) ==
    IF \E r \in rows : r.id = g.id
    THEN LET old == CHOOSE x \in rows : x.id = g.id
             new == [old EXCEPT !.group_name = g.group_name]
         IN  StmtOk(new, (rows \ {old}) \cup {new})
    ELSE StmtErr("RowNotFound", rows)
(***************************************************************************)
(* src/mappers/tweet.rs                                                    *)
(***************************************************************************)
TweetIds == 1..MaxTweetId
Contents == {"hello", "bye"}

\* models/tweet.rs: struct Tweet (created_at and updated_at are filled in by
\* the store)
Tweet == [id : TweetIds, content : Contents, user_id : UserIds]

\* INSERT INTO tweet (content, user_id) ... RETURNING, fetch_one: the store
\* generates the id, here any id that no row has
insert_tweet_stmt(rows, t, id) ==
    LET new == [id |-> id, content |-> t.content, user_id |-> t.user_id]
    IN  StmtOk(new, rows \cup {new})

\* DELETE FROM tweet WHERE id = $1 RETURNING, fetch_one
delete_tweet_by_id_stmt(rows, id) ==
    IF \E r \in rows : r.id = id
    THEN LET r == CHOOSE x \in rows : x.id = id
         IN  StmtOk(r, rows \ {r})
    ELSE StmtErr("RowNotFound", rows)

\* UPDATE tweet SET content = $1, updated_at = $2 WHERE id = $3 RETURNING,
\* fetch_one
update_tweet_stmt(rows, t) ==
    IF \E r \in rows : r.id = t.id
    THEN LET old == CHOOSE x \in rows : x.id = t.id
             new == [old EXCEPT !.content = t.content]
         IN  StmtOk(new, (rows \ {old}) \cup {new})
    ELSE StmtErr("RowNotFound", rows)

\* SELECT ... FROM tweet WHERE id = $1, fetch_one
get_tweet_by_id_stmt(rows, id) ==
    IF \E r \in rows : r.id = id
    THEN Ok(CHOOSE r \in rows : r.id = id)
    ELSE Err("RowNotFound")
(***************************************************************************)
(* src/mappers/user_permission.rs.  A row grants a permission to a user;   *)
(* its key is the pair (user_id, permission_id).                           *)
(***************************************************************************)
PermissionIds == 1..MaxPermissionId
RECURSIVE OrderByUserIdPermissionId(_)
RECURSIVE OrderByUserIdPermissionId_PermissionFirst(_)
UserPermission == [user_id : UserIds, permission_id : PermissionIds]

\* the key of user_permissions: one row per (user_id, permission_id)
UserPermissionsViolation(rows, up) == up \in rows

\* INSERT INTO user_permissions (user_id, permission_id) ... RETURNING,
\* fetch_one
insert_user_permission_stmt(rows, up) ==
    IF UserPermissionsViolation(rows, up) THEN StmtErr("constraint", rows)
    ELSE StmtOk(up, rows \cup {up})

OrderByUserIdPermissionId_PermissionFirst(rows) ==
    IF rows = {} THEN <<>>
    ELSE LET r == CHOOSE x \in rows : \A y \in rows :
                      \/ x.permission_id < y.permission_id
                      \/ x.permission_id = y.permission_id /\ x.user_id <= y.user_id
         IN  <<r>> \o OrderByUserIdPermissionId_PermissionFirst(rows \ {r})
\* the rows of user_permissions in ORDER BY user_id, permission_id
OrderByUserIdPermissionId(rows) ==
    IF rows = {} THEN <<>>
    ELSE LET r == CHOOSE x \in rows : \A y \in rows :
                      \/ x.user_id < y.user_id
                      \/ x.user_id = y.user_id /\ x.permission_id <= y.permission_id
         IN  <<r>> \o OrderByUserIdPermissionId(rows \ {r})

\* SELECT * FROM user_permissions WHERE user_id = $1, fetch_all
get_user_permissions_by_user_id_stmt(rows, user_id) ==
    {r \in rows : r.user_id = user_id}

\* SELECT * FROM user_permissions WHERE permission_id = $1, fetch_all
get_user_permissions_by_permission_id_stmt(rows, permission_id) ==
    {r \in rows : r.permission_id = permission_id}

delete_user_permissions_by_user_id_stmt_All(rows, user_id) ==
    StmtOk({r \in rows : r.user_id = user_id}, {})
\* DELETE FROM user_permissions WHERE user_id = $1 RETURNING, fetch_all
delete_user_permissions_by_user_id_stmt(rows, user_id) ==
    LET gone == {r \in rows : r.user_id = user_id}
    IN  StmtOk(gone, rows \ gone)

\* DELETE FROM user_permissions WHERE user_id = $1 AND permission_id = $2
\* RETURNING, fetch_one
delete_user_permission_stmt(rows, user_id, permission_id) ==
    LET r == [user_id |-> user_id, permission_id |-> permission_id]
    IN  IF r \in rows THEN StmtOk(r, rows \ {r})
        ELSE StmtErr("RowNotFound", rows)

\* DELETE FROM user_permissions WHERE permission_id = $1 RETURNING, fetch_all
delete_user_permissions_by_permission_id_stmt(rows, permission_id) ==
    LET gone == {r \in rows : r.permission_id = permission_id}
    IN  StmtOk(gone, rows \ gone)
(***************************************************************************)
(* Request tasks.  A task runs one handler at a time: it begins a          *)
(* transaction on the pool, hands it to a mapper, and answers.  The        *)
(* statements of a mapper are separate steps (each is an await).           *)
(***************************************************************************)
Tasks == DOMAIN pc

\* a transaction handle: n counts the transactions this request has begun,
\* stmts/muts the statements and the mutating statements issued on the handle,
\* commits the commits; pending holds the rows of a table that the
\* transaction removed and wrote and has not committed, if any
NoTx == [n |-> 0, state |-> "none", stmts |-> 0, muts |-> 0, commits |-> 0,
         pending |-> None]

\* the snapshot of a task that serves no request
NoSnapshot ==
    [users |-> {}, user_groups |-> {}, tweets |-> {}, user_permissions |-> {}]

NoReq == [route |-> "none"]

Snapshot ==
    [users |-> users, user_groups |-> user_groups, tweets |-> tweets,
     user_permissions |-> user_permissions]

Committed(table) ==
    CASE table = "users" -> users
      [] table = "user_groups" -> user_groups
      [] table = "tweet" -> tweets
      [] table = "user_permissions" -> user_permissions

View_Snapshot(p, table) ==
    CASE table = "users" -> pre[p].users
      [] table = "user_groups" -> pre[p].user_groups
      [] table = "tweet" -> pre[p].tweets
      [] table = "user_permissions" -> pre[p].user_permissions
\* the rows a statement of task p sees: the committed rows, with the rows its
\* own transaction removed taken out and the rows it wrote put in; the
\* uncommitted rows of other transactions are not seen
View(p, table) ==
    IF tx[p].pending # None /\ tx[p].pending[1].table = table
    THEN (Committed(table) \ tx[p].pending[1].del) \cup tx[p].pending[1].add
    ELSE Committed(table)

\* two rows of a table that its unique constraints do not allow together
KeyConflict(table, a, b) ==
    CASE table = "users" -> a.id = b.id \/ a.username = b.username
      [] table \in {"user_groups", "tweet"} -> a.id = b.id
      [] table = "user_permissions" -> a = b

\* the statement waits for another open transaction: when a row that its
\* WHERE clause matches (hit) was updated or deleted by that transaction, or
\* when a row it writes collides, on a unique key, with a row that
\* transaction wrote or is removing.  Rows that another transaction
\* inserted and has not committed are not matched, so they block no
\* UPDATE or DELETE.
RowBlocked(p, o, table, hit, writes) ==
    /\ tx[o].state = "open"
    /\ tx[o].pending # None
    /\ tx[o].pending[1].table = table
    /\ \/ hit \cap tx[o].pending[1].del # {}
       \/ \E w \in writes :
              \E x \in (tx[o].pending[1].del \cup tx[o].pending[1].add) \ hit :
                  KeyConflict(table, w, x)

\* two versions of a row that agree on every unique column
SameKey(table, a, b) ==
    CASE table = "users" -> a.id = b.id /\ a.username = b.username
      [] table \in {"user_groups", "tweet"} -> a.id = b.id
      [] table = "user_permissions" -> a = b

\* open transaction o holds, on the committed row x of `table`, the lock of
\* a DELETE or of an UPDATE that changes a unique column; an UPDATE of
\* other columns takes a weaker lock, which a reference check does not
\* wait for
HoldsForUpdate(o, table, x) ==
    /\ tx[o].state = "open"
    /\ tx[o].pending # None
    /\ tx[o].pending[1].table = table
    /\ x \in tx[o].pending[1].del
    /\ ~\E y \in tx[o].pending[1].add : SameKey(table, x, y)

\* open transaction o holds the lock of a reference check on the group with
\* this id: it wrote a user that names the group, which the row it replaced
\* (if any) did not
HoldsKeyShare(o, id) ==
    /\ tx[o].state = "open"
    /\ tx[o].pending # None
    /\ tx[o].pending[1].table = "users"
    /\ \E w \in tx[o].pending[1].add :
           /\ w.user_group_id = Some(id)
           /\ ~\E h \in tx[o].pending[1].del :
                  h.id = w.id /\ h.user_group_id = w.user_group_id

\* the locks of the reference users.user_group_id -> user_groups.id.  A
\* statement that gives a user a group (and meets no unique violation)
\* checks the group's row, and waits while another transaction is deleting
\* it.  A DELETE of a group waits while another transaction holds the lock
\* of a reference check on it, and its own check of the users that name
\* the group waits while one of them is being deleted or re-keyed.
RefBlocked(p, o, table, hit, writes) ==
    \/ /\ table = "users"
       /\ \E w \in writes :
              /\ w.user_group_id # None
              /\ ~\E h \in hit : h.id = w.id /\ h.user_group_id = w.user_group_id
              /\ ~\E r \in View(p, "users") \ hit : KeyConflict("users", w, r)
              /\ \E x \in Committed("user_groups") :
                     /\ x.id = w.user_group_id[1]
                     /\ HoldsForUpdate(o, "user_groups", x)
    \/ /\ table = "user_groups"
       /\ \E x \in hit :
              /\ ~\E w \in writes : w.id = x.id
              /\ \/ HoldsKeyShare(o, x.id)
                 \/ \E u \in Committed("users") :
                        /\ u.user_group_id = Some(x.id)
                        /\ HoldsForUpdate(o, "users", u)

\* the statement of task p waits for a lock of another open transaction
Blocked(p, table, hit, writes) ==
    \E o \in Tasks \ {p} :
        \/ RowBlocked(p, o, table, hit, writes)
        \/ RefBlocked(p, o, table, hit, writes)

\* dropping a handle that was not committed rolls it back
Dropped(t) ==
    IF t.state = "open"
    THEN [t EXCEPT !.state = "rolled_back", !.pending = None]
    ELSE t

MutatingMappers ==
    {"insert_user", "update_user", "delete_user_by_id", "delete_users_by_ids",
     "insert_user_group", "update_user_group", "delete_user_group_by_id",
     "insert_user_permission", "delete_user_permission",
     "delete_user_permissions_by_user_id",
     "delete_user_permissions_by_permission_id"}

ReadOnlyRoutes ==
    {"get_user_by_id", "get_all_users", "get_all_groups", "get_group_by_id",
     "check_user_id_is_valid", "login"}

\* where a handler goes after pool.begin()
AfterBegin(route) ==
    CASE route \in {"get_all_users", "get_all_groups", "get_all_tweets",
                    "get_tweets_by_user_id", "get_all_user_permissions"} -> "count"
      [] route = "update_user_route" -> "existing"
      [] route = "login" -> "by_username"
      [] OTHER -> "stmt"

AfterStmt_NoCommit(res) == "done"
\* where a mutating mapper goes after its statement: `?` (or the Err arm)
\* returns at once, the Ok path goes on to transaction.commit()
AfterStmt(res) == IF res.ok THEN "commit" ELSE "done"

\* the first step of a handler: logout and check_login take the session
\* only, every other handler starts with pool.begin()
FirstStep(route) ==
    IF route \in {"logout", "check_login"} THEN "session" ELSE "begin"

\* a request arrives at task p, from a client that has no session yet
\* (fresh) or from the client of the task's previous request
Call(p, requests, fresh) ==
    /\ pc[p] = "idle"
    /\ \E r \in requests :
           /\ req' = [req EXCEPT ![p] = r]
           /\ pc' = [pc EXCEPT ![p] = FirstStep(r.route)]
    /\ session' = IF fresh THEN [session EXCEPT ![p] = [k \in DOMAIN @ |-> None]]
                  ELSE session
    /\ tx' = [tx EXCEPT ![p] = NoTx]
    /\ ret' = [ret EXCEPT ![p] = Running]
    /\ pre' = [pre EXCEPT ![p] = Snapshot]
    /\ UNCHANGED <<storeVars, dtoVars>>

Begin_KeepHandle(p) ==
    /\ pc[p] \in {"begin", "begin2"}
    /\ IF pc[p] = "begin"
       THEN tx' = [tx EXCEPT ![p] = [NoTx EXCEPT !.n = 1, !.state = "open"]]
       ELSE tx' = tx
    /\ pc' = [pc EXCEPT ![p] =
                 IF pc[p] = "begin" THEN AfterBegin(req[p].route) ELSE "stmt"]
    /\ UNCHANGED <<storeVars, req, ret, pre, session, dtoVars>>
\* pool.begin().await.unwrap(): a fresh open transaction, or a panic of the
\* task when the pool gives none
Begin(p) ==
    /\ pc[p] \in {"begin", "begin2"}
    /\ \E got \in BOOLEAN :
           IF got
           THEN /\ tx' = [tx EXCEPT ![p] =
                              [NoTx EXCEPT !.n = tx[p].n + 1, !.state = "open"]]
                /\ pc' = [pc EXCEPT ![p] =
                              IF pc[p] = "begin" THEN AfterBegin(req[p].route)
                              ELSE "stmt"]
                /\ ret' = ret
           ELSE /\ tx' = tx
                /\ pc' = [pc EXCEPT ![p] = "done"]
                /\ ret' = [ret EXCEPT ![p] = Err("panic")]
    /\ UNCHANGED <<storeVars, req, pre, session, dtoVars>>

\* what a transaction holds after a statement on `table` that matched hit
\* and turned the rows it saw into after
Pending(table, rows, hit, after) ==
    LET del == hit \cup (rows \ after)
    IN  [table |-> table, del |-> del, add |-> after \ (rows \ del)]

\* the rows with one of the ids, which a WHERE id = .. clause matches
WithId(rows, ids) == {r \in rows : r.id \in ids}

\* the statement of a mutating mapper on the handle it owns: hit are the
\* rows its WHERE clause matches, writes the rows it puts, and res what it
\* does to the rows it sees.  The transaction keeps the rows it removed
\* (which it holds locked) and the rows it added until it commits.
MutatingStmt(p, table, hit, writes, res) ==
    /\ ~Blocked(p, table, hit, writes)
    /\ \E conn \in BOOLEAN :
           LET r == IF conn THEN res ELSE StmtErr("connection", res.rows)
               t == [tx[p] EXCEPT !.stmts = @ + 1, !.muts = @ + 1]
           IN  /\ pc' = [pc EXCEPT ![p] = AfterStmt(r)]
               /\ IF AfterStmt(r) = "commit"
                  THEN /\ tx' = [tx EXCEPT ![p] =
                                    [t EXCEPT !.pending =
                                        Some(Pending(table, View(p, table),
                                                     hit, r.rows))]]
                       /\ ret' = [ret EXCEPT ![p] =
                                     [Running EXCEPT !.value = r.value]]
                  ELSE /\ tx' = [tx EXCEPT ![p] = Dropped(t)]
                       /\ ret' = [ret EXCEPT ![p] =
                                     IF r.ok THEN Ok(r.value) ELSE Err(r.cause)]
    /\ UNCHANGED <<storeVars, req, pre, session, dtoVars>>

insert_user(p) ==
    /\ pc[p] = "stmt" /\ req[p].route = "insert_user"
    /\ \E now \in Times :
           MutatingStmt(p, "users", {},
               {[req[p].user EXCEPT !.created_at = Some(now)]},
               insert_user_stmt(View(p, "users"), View(p, "user_groups"),
                                req[p].user, now))

delete_user_by_id(p) ==
    /\ pc[p] = "stmt" /\ req[p].route = "delete_user_by_id"
    /\ MutatingStmt(p, "users", WithId(View(p, "users"), {req[p].id}), {},
                    delete_user_by_id_stmt(View(p, "users"), req[p].id))

updated_user_EmptyPassword(r, existing) ==
    [id |-> r.id, username |-> r.username,
     password_hash |-> IF r.password # None THEN r.password[1] ELSE "",
     created_at |-> existing.created_at,
     user_group_id |-> r.user_group_id]
\* the User that update_user_route builds from the body and the existing row
updated_user(r, existing) ==
    [id |-> r.id, username |-> r.username,
     password_hash |-> IF r.password # None THEN r.password[1]
                       ELSE existing.password_hash,
     created_at |-> existing.created_at,
     user_group_id |-> r.user_group_id]

update_user(p) ==
    /\ pc[p] = "stmt" /\ req[p].route \in {"update_user", "update_user_route"}
    /\ LET u == IF req[p].route = "update_user" THEN req[p].user
                ELSE updated_user(req[p], ret[p].value[1])
           hit == WithId(View(p, "users"), {u.id})
       IN  MutatingStmt(p, "users", hit, IF hit = {} THEN {} ELSE {u},
                        update_user_stmt(View(p, "users"),
                                         View(p, "user_groups"), u))

delete_users_by_ids(p) ==
    /\ pc[p] = "stmt" /\ req[p].route = "delete_users_by_ids"
    /\ MutatingStmt(p, "users", WithId(View(p, "users"), req[p].ids), {},
                    delete_users_by_ids_stmt(View(p, "users"), req[p].ids))

insert_user_group(p) ==
    /\ pc[p] = "stmt" /\ req[p].route = "insert_user_group"
    /\ MutatingStmt(p, "user_groups", {}, {req[p].group},
           insert_user_group_stmt(View(p, "user_groups"), req[p].group))

delete_user_group_by_id(p) ==
    /\ pc[p] = "stmt" /\ req[p].route = "delete_user_group_by_id"
    /\ MutatingStmt(p, "user_groups",
           WithId(View(p, "user_groups"), {req[p].id}), {},
           delete_user_group_by_id_stmt(View(p, "user_groups"),
                                        View(p, "users"), req[p].id))

update_user_group(p) ==
    /\ pc[p] = "stmt" /\ req[p].route = "update_user_group"
    /\ LET hit == WithId(View(p, "user_groups"), {req[p].group.id})
       IN  MutatingStmt(p, "user_groups", hit,
               IF hit = {} THEN {} ELSE {req[p].group},
               update_user_group_stmt(View(p, "user_groups"), req[p].group))

insert_tweet(p) ==
    /\ pc[p] = "stmt" /\ req[p].route = "insert_tweet"
    /\ \E id \in TweetIds \ {r.id : r \in View(p, "tweet")} :
           MutatingStmt(p, "tweet", {}, {},
               insert_tweet_stmt(View(p, "tweet"), req[p].tweet, id))

delete_tweet_by_id(p) ==
    /\ pc[p] = "stmt" /\ req[p].route = "delete_tweet_by_id"
    /\ MutatingStmt(p, "tweet", WithId(View(p, "tweet"), {req[p].id}), {},
                    delete_tweet_by_id_stmt(View(p, "tweet"), req[p].id))

update_tweet(p) ==
    /\ pc[p] = "stmt" /\ req[p].route = "update_tweet"
    /\ LET hit == WithId(View(p, "tweet"), {req[p].tweet.id})
       IN  MutatingStmt(p, "tweet", hit, {},
                        update_tweet_stmt(View(p, "tweet"), req[p].tweet))

insert_user_permission(p) ==
    /\ pc[p] = "stmt" /\ req[p].route = "insert_user_permission"
    /\ MutatingStmt(p, "user_permissions", {}, {req[p].user_permission},
           insert_user_permission_stmt(View(p, "user_permissions"),
                                       req[p].user_permission))

delete_user_permission(p) ==
    /\ pc[p] = "stmt" /\ req[p].route = "delete_user_permission"
    /\ MutatingStmt(p, "user_permissions",
           View(p, "user_permissions") \cap {req[p].user_permission}, {},
           delete_user_permission_stmt(View(p, "user_permissions"),
               req[p].user_permission.user_id,
               req[p].user_permission.permission_id))

delete_user_permissions_by_user_id(p) ==
    /\ pc[p] = "stmt" /\ req[p].route = "delete_user_permissions_by_user_id"
    /\ MutatingStmt(p, "user_permissions",
           get_user_permissions_by_user_id_stmt(
               View(p, "user_permissions"), req[p].id), {},
           delete_user_permissions_by_user_id_stmt(
               View(p, "user_permissions"), req[p].id))

delete_user_permissions_by_permission_id(p) ==
    /\ pc[p] = "stmt"
    /\ req[p].route = "delete_user_permissions_by_permission_id"
    /\ MutatingStmt(p, "user_permissions",
           get_user_permissions_by_permission_id_stmt(
               View(p, "user_permissions"), req[p].id), {},
           delete_user_permissions_by_permission_id_stmt(
               View(p, "user_permissions"), req[p].id))

CommitRows_KeepStored(pending, rows) ==
    rows \cup {r \in pending.add : ~\E x \in rows : x.id = r.id}
\* the rows of a table once the transaction holding `pending` has committed:
\* the rows it removed are gone and the rows it wrote are there
CommitRows(pending, rows) == (rows \ pending.del) \cup pending.add

\* transaction.commit().await.context(..)? and the Ok(row) that follows it
Commit(p) ==
    /\ pc[p] = "commit"
    /\ \E done \in BOOLEAN :
           IF done
           THEN LET w == tx[p].pending[1]
                IN  /\ users' = IF w.table = "users"
                                THEN CommitRows(w, users) ELSE users
                    /\ user_groups' = IF w.table = "user_groups"
                                      THEN CommitRows(w, user_groups)
                                      ELSE user_groups
                    /\ tweets' = IF w.table = "tweet"
                                 THEN CommitRows(w, tweets) ELSE tweets
                    /\ user_permissions' = IF w.table = "user_permissions"
                                           THEN CommitRows(w, user_permissions)
                                           ELSE user_permissions
                    /\ tx' = [tx EXCEPT ![p] =
                                 [@ EXCEPT !.state = "committed",
                                           !.commits = @ + 1,
                                           !.pending = None]]
                    /\ ret' = [ret EXCEPT ![p] = Ok(ret[p].value)]
           ELSE /\ UNCHANGED storeVars
                /\ tx' = [tx EXCEPT ![p] = Dropped(@)]
                /\ ret' = [ret EXCEPT ![p] = Err("commit")]
    /\ pc' = [pc EXCEPT ![p] = "done"]
    /\ UNCHANGED <<req, pre, session, dtoVars>>
(***************************************************************************)
(* Read-only mappers                                                       *)
(***************************************************************************)
ReadOnlyEnd_Commit(t) ==
    [t EXCEPT !.state = "committed", !.commits = @ + 1, !.pending = None]
\* a read-only mapper returns without committing: the handle it owns goes out
\* of scope
ReadOnlyEnd(t) == Dropped(t)

get_user_by_id_stmt_AnyRow(rows, id) ==
    IF rows # {} THEN Some(CHOOSE r \in rows : TRUE) ELSE None
\* SELECT ... FROM users WHERE id = $1, fetch_optional
get_user_by_id_stmt(rows, id) ==
    IF \E r \in rows : r.id = id
    THEN Some(CHOOSE r \in rows : r.id = id) ELSE None

\* get_user_by_id, called by get_user_route and first by update_user_route
get_user_by_id(p) ==
    /\ \/ pc[p] = "stmt" /\ req[p].route = "get_user_by_id"
       \/ pc[p] = "existing" /\ req[p].route = "update_user_route"
    /\ \E conn \in BOOLEAN :
           LET found == get_user_by_id_stmt(View(p, "users"), req[p].id)
               t == ReadOnlyEnd([tx[p] EXCEPT !.stmts = @ + 1])
           IN  /\ tx' = [tx EXCEPT ![p] = t]
               /\ IF ~conn
                  THEN /\ ret' = [ret EXCEPT ![p] = Err("connection")]
                       /\ pc' = [pc EXCEPT ![p] = "done"]
                  ELSE IF req[p].route = "get_user_by_id"
                  THEN /\ ret' = [ret EXCEPT ![p] = Ok(found)]
                       /\ pc' = [pc EXCEPT ![p] = "done"]
                  ELSE IF found = None
                  \* update_user_route reads the fields of the existing user:
                  \* without one the handler fails
                  THEN /\ ret' = [ret EXCEPT ![p] = Err("no existing user")]
                       /\ pc' = [pc EXCEPT ![p] = "done"]
                  ELSE /\ ret' = [ret EXCEPT ![p] =
                                     [Running EXCEPT !.value = found]]
                       /\ pc' = [pc EXCEPT ![p] = "begin2"]
    /\ UNCHANGED <<storeVars, req, pre, session, dtoVars>>

\* select * from user_groups where id=$1, fetch_one
get_group_by_id(p) ==
    /\ pc[p] = "stmt" /\ req[p].route = "get_group_by_id"
    /\ \E conn \in BOOLEAN :
           LET rows == View(p, "user_groups")
           IN  ret' = [ret EXCEPT ![p] =
                   IF ~conn THEN Err("connection")
                   ELSE IF \E r \in rows : r.id = req[p].id
                   THEN Ok(CHOOSE r \in rows : r.id = req[p].id)
                   ELSE Err("RowNotFound")]
    /\ tx' = [tx EXCEPT ![p] = ReadOnlyEnd([@ EXCEPT !.stmts = @ + 1])]
    /\ pc' = [pc EXCEPT ![p] = "done"]
    /\ UNCHANGED <<storeVars, req, pre, session, dtoVars>>

\* get_tweet_by_id: the `?` after fetch_one returns the store's error
get_tweet_by_id(p) ==
    /\ pc[p] = "stmt" /\ req[p].route = "get_tweet_by_id"
    /\ \E conn \in BOOLEAN :
           ret' = [ret EXCEPT ![p] =
               IF ~conn THEN Err("connection")
               ELSE get_tweet_by_id_stmt(View(p, "tweet"), req[p].id)]
    /\ tx' = [tx EXCEPT ![p] = ReadOnlyEnd([@ EXCEPT !.stmts = @ + 1])]
    /\ pc' = [pc EXCEPT ![p] = "done"]
    /\ UNCHANGED <<storeVars, req, pre, session, dtoVars>>

\* get_user_permissions_by_user_id and get_user_permissions_by_permission_id:
\* one fetch_all, whose `?` returns the store's error
get_user_permissions_by(p) ==
    /\ pc[p] = "stmt"
    /\ req[p].route \in {"get_user_permissions_by_user_id",
                         "get_user_permissions_by_permission_id"}
    /\ \E conn \in BOOLEAN :
           LET rows == View(p, "user_permissions")
           IN  ret' = [ret EXCEPT ![p] =
                   IF ~conn THEN Err("connection")
                   ELSE IF req[p].route = "get_user_permissions_by_user_id"
                   THEN Ok(get_user_permissions_by_user_id_stmt(rows, req[p].id))
                   ELSE Ok(get_user_permissions_by_permission_id_stmt(
                               rows, req[p].id))]
    /\ tx' = [tx EXCEPT ![p] = ReadOnlyEnd([@ EXCEPT !.stmts = @ + 1])]
    /\ pc' = [pc EXCEPT ![p] = "done"]
    /\ UNCHANGED <<storeVars, req, pre, session, dtoVars>>

\* SELECT EXISTS(SELECT 1 FROM users WHERE id = $1), on a borrowed handle
\* that the caller then lets go
check_user_id_is_valid(p) ==
    /\ pc[p] = "stmt" /\ req[p].route = "check_user_id_is_valid"
    /\ \E conn \in BOOLEAN :
           ret' = [ret EXCEPT ![p] =
               IF ~conn THEN Err("connection")
               ELSE Ok(\E r \in View(p, "users") : r.id = req[p].id)]
    /\ tx' = [tx EXCEPT ![p] = Dropped([@ EXCEPT !.stmts = @ + 1])]
    /\ pc' = [pc EXCEPT ![p] = "done"]
    /\ UNCHANGED <<storeVars, req, pre, session, dtoVars>>

(***************************************************************************)
(* List mappers: a count query, then the data query                        *)
(***************************************************************************)
\* get_all_users: SELECT COUNT(*) FROM users
get_all_users_count(rows, q) == Cardinality(rows)

\* get_all_users: the group_id bound to $1
group_id(q) == IF q.filter # None THEN q.filter[1].user_group_id ELSE None

\* get_all_users: WHERE user_group_id IS NOT DISTINCT FROM $1
get_all_users_where(rows, q) == {r \in rows : r.user_group_id = group_id(q)}

\* get_all_groups: SELECT COUNT(*) FROM user_groups
get_all_groups_count(rows, q) == Cardinality(rows)

\* get_all_groups: no WHERE clause
get_all_groups_where(rows, q) == rows

\* get_all_tweets: SELECT COUNT(*) FROM tweet
get_all_tweets_count(rows, q) == Cardinality(rows)

\* get_all_tweets: no WHERE clause; dto_query.filter is not read
get_all_tweets_where(rows, q) == rows

\* get_tweets_by_user_id: SELECT COUNT(*) FROM tweet WHERE user_id = $1
get_tweets_by_user_id_count(rows, user_id) ==
    Cardinality({r \in rows : r.user_id = user_id})

\* get_tweets_by_user_id: WHERE user_id = $1
get_tweets_by_user_id_where(rows, user_id) == {r \in rows : r.user_id = user_id}

\* get_all_user_permissions: SELECT COUNT(*) FROM user_permissions
get_all_user_permissions_count(rows, q) == Cardinality(rows)

\* get_all_user_permissions: no WHERE clause
get_all_user_permissions_where(rows, q) == rows

ListTable(route) ==
    CASE route = "get_all_users" -> "users"
      [] route = "get_all_user_permissions" -> "user_permissions"
      [] route = "get_all_groups" -> "user_groups"
      [] route \in {"get_all_tweets", "get_tweets_by_user_id"} -> "tweet"

\* the count query of the list mapper that request r calls
ListCountOf(r, rows) ==
    CASE r.route = "get_all_users" -> get_all_users_count(rows, r.query)
      [] r.route = "get_all_groups" -> get_all_groups_count(rows, r.query)
      [] r.route = "get_all_tweets" -> get_all_tweets_count(rows, r.query)
      [] r.route = "get_all_user_permissions" ->
             get_all_user_permissions_count(rows, r.query)
      [] r.route = "get_tweets_by_user_id" ->
             get_tweets_by_user_id_count(rows, r.user_id)

\* the rows that the data query of the list mapper of request r selects
ListWhereOf(r, rows) ==
    CASE r.route = "get_all_users" -> get_all_users_where(rows, r.query)
      [] r.route = "get_all_groups" -> get_all_groups_where(rows, r.query)
      [] r.route = "get_all_tweets" -> get_all_tweets_where(rows, r.query)
      [] r.route = "get_all_user_permissions" ->
             get_all_user_permissions_where(rows, r.query)
      [] r.route = "get_tweets_by_user_id" ->
             get_tweets_by_user_id_where(rows, r.user_id)

\* the ORDER BY of the data query of the list mapper of request r
ListOrderOf(r, hit) ==
    IF r.route = "get_all_user_permissions"
    THEN OrderByUserIdPermissionId(hit)
    ELSE OrderById(hit)

\* let offset = dto_query.offset() as i64; let limit = dto_query.size() as i64;
\* then the count query
ListCount(p) ==
    /\ pc[p] = "count"
    /\ LET q == req[p].query
           rows == View(p, ListTable(req[p].route))
       IN  \E o \in offset(q), conn \in BOOLEAN :
               IF o.panic
               THEN /\ ret' = [ret EXCEPT ![p] = Err("panic")]
                    /\ tx' = [tx EXCEPT ![p] = Dropped(@)]
                    /\ pc' = [pc EXCEPT ![p] = "done"]
               ELSE IF ~conn
               THEN /\ ret' = [ret EXCEPT ![p] = Err("connection")]
                    /\ tx' = [tx EXCEPT ![p] = Dropped([@ EXCEPT !.stmts = @ + 1])]
                    /\ pc' = [pc EXCEPT ![p] = "done"]
               ELSE /\ ret' = [ret EXCEPT ![p] = [Running EXCEPT !.value =
                            [offset |-> o.value, limit |-> size(q),
                             total |-> Some(ListCountOf(req[p], rows))]]]
                    /\ tx' = [tx EXCEPT ![p] = [@ EXCEPT !.stmts = @ + 1]]
                    /\ pc' = [pc EXCEPT ![p] = "data"]
    /\ UNCHANGED <<storeVars, req, pre, session, dtoVars>>

\* the data query (ORDER BY .. LIMIT .. OFFSET ..), Pagination::new and
\* DtoResponse::new.  The store rejects a negative LIMIT or OFFSET.
ListData(p) ==
    /\ pc[p] = "data"
    /\ LET q == req[p].query
           l == ret[p].value
           rows == View(p, ListTable(req[p].route))
           hit == ListWhereOf(req[p], rows)
       IN  \E conn \in BOOLEAN :
               ret' = [ret EXCEPT ![p] =
                   IF ~conn THEN Err("connection")
                   ELSE IF l.offset < 0 \/ l.limit < 0 THEN Err("statement")
                   ELSE Ok([data |-> LimitOffset(ListOrderOf(req[p], hit),
                                                 l.limit, l.offset),
                            pagination |-> Some(PaginationNew(Some(page(q)),
                                                Some(size(q)), l.total))])]
    /\ tx' = [tx EXCEPT ![p] = ReadOnlyEnd([@ EXCEPT !.stmts = @ + 1])]
    /\ pc' = [pc EXCEPT ![p] = "done"]
    /\ UNCHANGED <<storeVars, req, pre, session, dtoVars>>

(***************************************************************************)
(* src/routes/auth.rs: login                                               *)
(***************************************************************************)
SessionKeys == {"username", "user_id", "user_name"}
NoSession == [k \in SessionKeys |-> None]

\* get_user_by_username(&mut transaction, &username), fetch_one; its Err arm
\* answers 400
get_user_by_username(p) ==
    /\ pc[p] = "by_username"
    /\ \E conn \in BOOLEAN :
           LET rows == {r \in View(p, "users") : r.username = req[p].username}
           IN  IF conn /\ rows # {}
               THEN /\ ret' = [ret EXCEPT ![p] = [Running EXCEPT !.value =
                                  Some(CHOOSE r \in rows : TRUE)]]
                    /\ tx' = [tx EXCEPT ![p] = [@ EXCEPT !.stmts = @ + 1]]
                    /\ pc' = [pc EXCEPT ![p] = "check_password"]
               ELSE /\ ret' = [ret EXCEPT ![p] =
                                  [Err(IF conn THEN "RowNotFound" ELSE "connection")
                                      EXCEPT !.value = Some(400)]]
                    /\ tx' = [tx EXCEPT ![p] = Dropped([@ EXCEPT !.stmts = @ + 1])]
                    /\ pc' = [pc EXCEPT ![p] = "done"]
    /\ UNCHANGED <<storeVars, req, pre, session, dtoVars>>

SessionAfterLogin_Always(s, user, correct) ==
    [s EXCEPT !["username"] = Some(user.username), !["user_id"] = Some(user.id)]
\* the session after the arms of login: the Ok(true) arm inserts username and
\* user_id, the other arms leave the session alone
SessionAfterLogin(s, user, correct) ==
    IF correct
    THEN [s EXCEPT !["username"] = Some(user.username),
                   !["user_id"] = Some(user.id)]
    ELSE s

check_user_password_correct_stmt_AnyPassword(rows, id, password_hash) ==
    \E r \in rows : r.id = id
\* SELECT EXISTS(SELECT 1 FROM users WHERE id = $1 AND password_hash = $2)
check_user_password_correct_stmt(rows, id, password_hash) ==
    \E r \in rows : r.id = id /\ r.password_hash = password_hash

\* check_user_password_correct(&mut transaction, user.id, password_hash) and
\* the three arms of login that follow it
check_user_password_correct(p) ==
    /\ pc[p] = "check_password"
    /\ \E conn \in BOOLEAN :
           LET user == ret[p].value[1]
               exists == check_user_password_correct_stmt(
                             View(p, "users"), user.id, req[p].password)
               s == SessionAfterLogin(session[p], user, TRUE)
           IN  IF ~conn
               THEN /\ ret' = [ret EXCEPT ![p] =
                                  [Err("connection") EXCEPT !.value = Some(400)]]
                    /\ session' = [session EXCEPT ![p] =
                                       SessionAfterLogin(@, user, FALSE)]
               ELSE IF exists
               THEN /\ ret' = [ret EXCEPT ![p] = Ok(s)]
                    /\ session' = [session EXCEPT ![p] = s]
               ELSE /\ ret' = [ret EXCEPT ![p] =
                                  [Err("UserPasswordInvalid") EXCEPT !.value = Some(401)]]
                    /\ session' = [session EXCEPT ![p] =
                                       SessionAfterLogin(@, user, FALSE)]
    /\ tx' = [tx EXCEPT ![p] = Dropped([@ EXCEPT !.stmts = @ + 1])]
    /\ pc' = [pc EXCEPT ![p] = "done"]
    /\ UNCHANGED <<storeVars, req, pre, dtoVars>>

\* session.get::<String>(key): Ok(None) for a key the session does not hold,
\* Ok(Some(value)) for a key it holds
session_get(s, key) ==
    Ok(s[key])

\* logout(session): purges the session when it holds the key "user_name",
\* answers a message otherwise; both answers are 200
logout(p) ==
    /\ pc[p] = "session"
    /\ req[p].route = "logout"
    /\ IF session_get(session[p], "user_name").value # None
       THEN /\ session' = [session EXCEPT ![p] = NoSession]
            /\ ret' = [ret EXCEPT ![p] =
                          Ok([message |-> None, entries |-> NoSession])]
       ELSE /\ session' = session
            /\ ret' = [ret EXCEPT ![p] =
                          Ok([message |-> Some("Attempt to log out failed: no user found in session."),
                              entries |-> session[p]])]
    /\ pc' = [pc EXCEPT ![p] = "done"]
    /\ UNCHANGED <<storeVars, req, tx, pre, dtoVars>>

\* check_login(&session): Ok(true) when session.get answers Ok, whatever the
\* Option inside, Ok(false) when it answers Err
check_login(p) ==
    /\ pc[p] = "session"
    /\ req[p].route = "check_login"
    /\ ret' = [ret EXCEPT ![p] =
                  IF session_get(session[p], "username").status = "ok"
                  THEN Ok(TRUE)
                  ELSE Ok(FALSE)]
    /\ pc' = [pc EXCEPT ![p] = "done"]
    /\ UNCHANGED <<storeVars, req, tx, pre, session, dtoVars>>
\* the handler has answered
Finish(p) ==
    /\ pc[p] = "done"
    /\ pc' = [pc EXCEPT ![p] = "idle"]
    /\ req' = [req EXCEPT ![p] = NoReq]
    /\ tx' = [tx EXCEPT ![p] = NoTx]
    /\ ret' = [ret EXCEPT ![p] = Running]
    /\ pre' = [pre EXCEPT ![p] = NoSnapshot]
    /\ UNCHANGED <<storeVars, session, dtoVars>>
(***************************************************************************)
(* Specifications                                                          *)
(***************************************************************************)
Filters == {None} \cup {Some([user_group_id |-> g]) : g \in OptOf(GroupIds)}

\* the ids a request can name: those a row can have, and one that no row has
LookupIds == 0..MaxUserId

\* the columns a list request can name in `sort`
SortFields(route) ==
    IF route = "get_all_users" THEN {"username"} ELSE {"group_name"}

Queries(route, filters) ==
    [page : Pages, size : Sizes, sort : OptOf(SortFields(route)),
     order : {None}, filter : filters]

\* the requests of the transactional specification: every mapper on every
\* argument (a User without created_at, as a client builds it),
\* update_user_route on the user with id 1 with the password omitted or
\* given, the list mappers on a few queries
Requests ==
    [route : {"insert_user", "update_user"},
     user : {u \in User : u.created_at = None}]
    \cup [route : {"delete_user_by_id", "get_user_by_id", "check_user_id_is_valid"},
          id : LookupIds]
    \cup [route : {"delete_users_by_ids"}, ids : SUBSET LookupIds]
    \cup [route : {"update_user_route"}, id : {1}, username : Usernames,
          password : {None, Some("pw2")}, user_group_id : OptOf(GroupIds)]
    \cup [route : {"insert_user_group", "update_user_group"}, group : UserGroup]
    \cup [route : {"delete_user_group_by_id", "get_group_by_id"}, id : GroupIds]
    \cup [route : {"login"}, username : Usernames, password : Passwords]
    \cup [route : {"get_all_users", "get_all_groups"},
          query : {default_query,
                   [default_query EXCEPT !.page = Some(2), !.size = Some(1)]}]

\* the requests of the list specification: the list mappers on every query
ListRequests ==
    [route : {"get_all_users"}, query : Queries("get_all_users", Filters)]
    \cup [route : {"get_all_groups"}, query : Queries("get_all_groups", {None})]

IdleTasks(T) ==
    /\ pc = [p \in T |-> "idle"]
    /\ req = [p \in T |-> NoReq]
    /\ tx = [p \in T |-> NoTx]
    /\ ret = [p \in T |-> Running]
    /\ pre = [p \in T |-> NoSnapshot]
    /\ session = [p \in T |-> NoSession]

DtoIdle ==
    /\ arg = [page |-> None, size |-> None, total |-> None]
    /\ out = None

\* a table of users satisfies its constraints
UsersOk(rows) ==
    \A r1, r2 \in rows :
        (r1.id = r2.id \/ r1.username = r2.username) => r1 = r2

\* every user_group_id that is set names a group
RefsOk(usrs, groups) ==
    \A u \in usrs :
        u.user_group_id # None => \E g \in groups : g.id = u.user_group_id[1]

\* the server starts on an empty store with one request task
Init ==
    /\ users = {}
    /\ user_groups = {}
    /\ tweets = {}
    /\ user_permissions = {}
    /\ IdleTasks({1})
    /\ DtoIdle

Next ==
    \/ \E p \in Tasks : Call(p, Requests, TRUE)
    \/ \E p \in Tasks : Begin(p)
    \/ \E p \in Tasks : insert_user(p)
    \/ \E p \in Tasks : delete_user_by_id(p)
    \/ \E p \in Tasks : update_user(p)
    \/ \E p \in Tasks : delete_users_by_ids(p)
    \/ \E p \in Tasks : insert_user_group(p)
    \/ \E p \in Tasks : delete_user_group_by_id(p)
    \/ \E p \in Tasks : update_user_group(p)
    \/ \E p \in Tasks : Commit(p)
    \/ \E p \in Tasks : get_user_by_id(p)
    \/ \E p \in Tasks : get_group_by_id(p)
    \/ \E p \in Tasks : check_user_id_is_valid(p)
    \/ \E p \in Tasks : ListCount(p)
    \/ \E p \in Tasks : ListData(p)
    \/ \E p \in Tasks : get_user_by_username(p)
    \/ \E p \in Tasks : check_user_password_correct(p)
    \/ \E p \in Tasks : Finish(p)

Spec == Init /\ [][Next]_vars

\* the DTO functions on every input
InitDto ==
    /\ DtoInit
    /\ users = {}
    /\ user_groups = {}
    /\ tweets = {}
    /\ user_permissions = {}
    /\ IdleTasks({1})

NextDto == EvalOffset \/ EvalPaginationNew \/ EvalDefaultP

SpecDto == InitDto /\ [][NextDto]_vars

\* list requests against a store that no one writes
InitList ==
    /\ users \in {rows \in SUBSET {u \in User : /\ u.password_hash = "pw1"
                                                /\ u.created_at = Some(1)} :
                      UsersOk(rows)}
    /\ user_groups \in {groups \in SUBSET {g \in UserGroup :
                                               g.group_name = "Admins"} :
                            RefsOk(users, groups)}
    /\ tweets = {}
    /\ user_permissions = {}
    /\ IdleTasks({1})
    /\ DtoIdle

NextList ==
    \/ \E p \in Tasks : Call(p, ListRequests, TRUE)
    \/ \E p \in Tasks : Begin(p)
    \/ \E p \in Tasks : ListCount(p)
    \/ \E p \in Tasks : ListData(p)
    \/ \E p \in Tasks : Finish(p)

SpecList == InitList /\ [][NextList]_vars

\* the requests of the concurrent specification: on the user and the group
\* with id 1, updates of both, inserts and deletes of the group, and the
\* group list; and, on another row of table users, the insert and the delete
\* of user 2, a member of group 1
ConcRequests ==
    [route : {"update_user"},
     user : {u \in User : u.id = 1 /\ u.password_hash = "pw1"
                              /\ u.created_at = None
                              /\ u.user_group_id = None}]
    \cup [route : {"insert_user"},
          user : {[id |-> 2, username |-> "bob", password_hash |-> "pw1",
                   created_at |-> None, user_group_id |-> Some(1)]}]
    \cup [route : {"delete_user_by_id"}, id : {2}]
    \cup [route : {"update_user_group", "insert_user_group"},
          group : {g \in UserGroup : g.id = 1}]
    \cup [route : {"delete_user_group_by_id"}, id : {1}]
    \cup [route : {"get_all_groups"}, query : {default_query}]

\* two request tasks on a store that holds a user and may hold a group
InitConc ==
    /\ users = {[id |-> 1, username |-> "alice", password_hash |-> "pw1",
                 created_at |-> Some(1), user_group_id |-> None]}
    /\ user_groups \in SUBSET {[id |-> 1, group_name |-> "Admins"]}
    /\ tweets = {}
    /\ user_permissions = {}
    /\ IdleTasks({1, 2})
    /\ DtoIdle

NextConc ==
    \/ \E p \in Tasks : Call(p, ConcRequests, TRUE)
    \/ \E p \in Tasks : Begin(p)
    \/ \E p \in Tasks : insert_user(p)
    \/ \E p \in Tasks : delete_user_by_id(p)
    \/ \E p \in Tasks : update_user(p)
    \/ \E p \in Tasks : insert_user_group(p)
    \/ \E p \in Tasks : delete_user_group_by_id(p)
    \/ \E p \in Tasks : update_user_group(p)
    \/ \E p \in Tasks : Commit(p)
    \/ \E p \in Tasks : ListCount(p)
    \/ \E p \in Tasks : ListData(p)
    \/ \E p \in Tasks : Finish(p)

SpecConc == InitConc /\ [][NextConc]_vars

\* the requests of the concurrent route specification, all on the user with
\* id 1: PUT /user/1 with the password omitted, and updates that set a
\* password
RouteRequests ==
    [route : {"update_user_route"}, id : {1}, username : Usernames,
     password : {None}, user_group_id : {None}]
    \cup [route : {"update_user"},
          user : {u \in User : u.id = 1 /\ u.username = "alice"
                                   /\ u.created_at = None
                                   /\ u.user_group_id = None}]

\* two request tasks on a store that holds one user
InitRoute ==
    /\ users = {[id |-> 1, username |-> "alice", password_hash |-> "pw1",
                 created_at |-> Some(1), user_group_id |-> None]}
    /\ user_groups = {}
    /\ tweets = {}
    /\ user_permissions = {}
    /\ IdleTasks({1, 2})
    /\ DtoIdle

NextRoute ==
    \/ \E p \in Tasks : Call(p, RouteRequests, TRUE)
    \/ \E p \in Tasks : Begin(p)
    \/ \E p \in Tasks : get_user_by_id(p)
    \/ \E p \in Tasks : update_user(p)
    \/ \E p \in Tasks : Commit(p)
    \/ \E p \in Tasks : Finish(p)

SpecRoute == InitRoute /\ [][NextRoute]_vars

\* the filter of a tweet list: restrict to this user id
TweetFilters == {None} \cup {Some([user_id |-> u]) : u \in OptOf(UserIds)}

\* the requests of the tweet specification; an insert is asked for while the
\* store has an id left to generate
TweetRequests ==
    (IF \E id \in TweetIds : \A r \in tweets : r.id # id
     THEN [route : {"insert_tweet"}, tweet : {t \in Tweet : t.id = 1}]
     ELSE {})
    \cup [route : {"delete_tweet_by_id", "get_tweet_by_id"},
          id : 0..MaxTweetId]
    \cup [route : {"update_tweet"}, tweet : {t \in Tweet : t.user_id = 1}]
    \cup [route : {"get_all_tweets"},
          query : [page : {None}, size : {None, Some(1)}, sort : {None},
                   order : {None}, filter : TweetFilters]]
    \cup [route : {"get_tweets_by_user_id"}, user_id : UserIds,
          query : [page : {None}, size : {None, Some(1)}, sort : {None},
                   order : {None}, filter : {None}]]

\* the tweet mappers, one request at a time, on an empty table
InitTweet ==
    /\ users = {}
    /\ user_groups = {}
    /\ tweets = {}
    /\ user_permissions = {}
    /\ IdleTasks({1})
    /\ DtoIdle

NextTweet ==
    \/ \E p \in Tasks : Call(p, TweetRequests, TRUE)
    \/ \E p \in Tasks : Begin(p)
    \/ \E p \in Tasks : insert_tweet(p)
    \/ \E p \in Tasks : delete_tweet_by_id(p)
    \/ \E p \in Tasks : update_tweet(p)
    \/ \E p \in Tasks : get_tweet_by_id(p)
    \/ \E p \in Tasks : ListCount(p)
    \/ \E p \in Tasks : ListData(p)
    \/ \E p \in Tasks : Commit(p)
    \/ \E p \in Tasks : Finish(p)

SpecTweet == InitTweet /\ [][NextTweet]_vars

\* requests of one client that keeps its session cookie
AuthRequests ==
    [route : {"login"}, username : Usernames, password : Passwords]
    \cup [route : {"logout", "check_login"}]

\* a store of registered users that no request of the client changes
InitAuth ==
    /\ users \in {{[id |-> 1, username |-> "alice", password_hash |-> "pw1",
                    created_at |-> Some(1), user_group_id |-> None]},
                  {[id |-> 1, username |-> "alice", password_hash |-> "pw1",
                    created_at |-> Some(1), user_group_id |-> None],
                   [id |-> MaxUserId, username |-> "bob", password_hash |-> "pw2",
                    created_at |-> Some(2), user_group_id |-> None]}}
    /\ user_groups = {}
    /\ tweets = {}
    /\ user_permissions = {}
    /\ IdleTasks({1})
    /\ DtoIdle

NextAuth ==
    \/ \E p \in Tasks : Call(p, AuthRequests, FALSE)
    \/ \E p \in Tasks : Begin(p)
    \/ \E p \in Tasks : get_user_by_username(p)
    \/ \E p \in Tasks : check_user_password_correct(p)
    \/ \E p \in Tasks : logout(p)
    \/ \E p \in Tasks : check_login(p)
    \/ \E p \in Tasks : Finish(p)

SpecAuth == InitAuth /\ [][NextAuth]_vars

\* the requests on user_permissions; 0 is an id that no row has
PermissionRequests ==
    [route : {"insert_user_permission", "delete_user_permission"},
     user_permission : UserPermission]
    \cup [route : {"delete_user_permissions_by_user_id",
                   "get_user_permissions_by_user_id"}, id : 0..MaxUserId]
    \cup [route : {"delete_user_permissions_by_permission_id",
                   "get_user_permissions_by_permission_id"},
          id : 0..MaxPermissionId]
    \cup [route : {"get_all_user_permissions"},
          query : [page : Pages, size : Sizes, sort : {None}, order : {None},
                   filter : {None}]]

\* the user_permission mappers, one request at a time, on an empty table
InitPermission ==
    /\ users = {}
    /\ user_groups = {}
    /\ tweets = {}
    /\ user_permissions = {}
    /\ IdleTasks({1})
    /\ DtoIdle

NextPermission ==
    \/ \E p \in Tasks : Call(p, PermissionRequests, TRUE)
    \/ \E p \in Tasks : Begin(p)
    \/ \E p \in Tasks : insert_user_permission(p)
    \/ \E p \in Tasks : delete_user_permission(p)
    \/ \E p \in Tasks : delete_user_permissions_by_user_id(p)
    \/ \E p \in Tasks : delete_user_permissions_by_permission_id(p)
    \/ \E p \in Tasks : get_user_permissions_by(p)
    \/ \E p \in Tasks : ListCount(p)
    \/ \E p \in Tasks : ListData(p)
    \/ \E p \in Tasks : Commit(p)
    \/ \E p \in Tasks : Finish(p)

SpecPermission == InitPermission /\ [][NextPermission]_vars
(***************************************************************************)
(* Properties                                                              *)
(***************************************************************************)
Min(a, b) == IF a < b THEN a ELSE b
Max(a, b) == IF a < b THEN b ELSE a

AtDone(p, routes) == pc[p] = "done" /\ req[p].route \in routes

\* the mapper call of task p has gone through its mutating statement
RanMutating(p) ==
    /\ pc[p] \in {"commit", "done"}
    /\ req[p].route \in MutatingMappers \cup {"update_user_route"}
    /\ tx[p].muts > 0

\* what a fresh transaction reads for the row a successful mutation returned
FreshRead(p) ==
    LET r == req[p].route
        v == ret[p].value
    IN  CASE r \in {"insert_user", "update_user", "update_user_route"} ->
                 get_user_by_id_stmt(users, v.id) = Some(v)
          [] r = "delete_user_by_id" ->
                 v \in pre[p].users /\ get_user_by_id_stmt(users, v.id) = None
          [] r = "delete_users_by_ids" ->
                 \A d \in v : get_user_by_id_stmt(users, d.id) = None
          [] r \in {"insert_user_group", "update_user_group"} ->
                 v \in user_groups
          [] r = "delete_user_group_by_id" ->
                 v \in pre[p].user_groups /\ ~\E g \in user_groups : g.id = v.id

\* C1: a mutating mapper issues exactly one mutating statement; when it
\* returns rows it has committed its transaction exactly once, and a fresh
\* transaction then reads the change.
C1_CommitOnceBeforeReturn ==
    \A p \in Tasks :
        /\ tx[p].muts <= 1 /\ tx[p].commits <= 1
        /\ RanMutating(p) => tx[p].muts = 1 /\ tx[p].stmts = 1
        /\ (RanMutating(p) /\ pc[p] = "commit") =>
               tx[p].commits = 0 /\ ret[p].status = "running"
        /\ (RanMutating(p) /\ pc[p] = "done" /\ ret[p].status = "ok") =>
               /\ tx[p].commits = 1
               /\ tx[p].state = "committed"
               /\ FreshRead(p)

C1_Witness ==
    \E p \in Tasks :
        /\ AtDone(p, {"update_user"})
        /\ ret[p].status = "ok"
        /\ tx[p].commits = 1
        /\ users # pre[p].users
        /\ ret[p].value \in users

\* the statement of the request of task p fails on the rows it arrived at
MustFail(p) ==
    LET r == req[p]
        u == pre[p].users
        g == pre[p].user_groups
    IN  CASE r.route = "insert_user" -> UsersViolation(u, g, r.user)
          [] r.route = "update_user" ->
                 \/ ~\E x \in u : x.id = r.user.id
                 \/ \E x \in u : x.id # r.user.id /\ x.username = r.user.username
                 \/ /\ r.user.user_group_id # None
                    /\ ~\E x \in g : x.id = r.user.user_group_id[1]
          [] r.route = "delete_user_by_id" -> ~\E x \in u : x.id = r.id
          [] r.route = "insert_user_group" -> UserGroupsViolation(g, r.group)
          [] r.route = "update_user_group" -> ~\E x \in g : x.id = r.group.id
          [] r.route = "delete_user_group_by_id" ->
                 \/ ~\E x \in g : x.id = r.id
                 \/ UserGroupReferenced(u, r.id)
          [] OTHER -> FALSE

\* C2: a mutating mapper whose statement fails (duplicate key, broken
\* reference, no matching row, connection error) returns a failure, never
\* commits, and leaves the
\* committed rows as they were before the call.
C2_FailureLeavesStore ==
    \A p \in Tasks :
        AtDone(p, MutatingMappers) =>
            /\ MustFail(p) => ret[p].status = "err"
            /\ ret[p].status = "err" =>
                   /\ tx[p].commits = 0
                   /\ tx[p].state # "committed"
                   /\ Snapshot = pre[p]

C2_Witness ==
    \E p \in Tasks :
        /\ AtDone(p, {"insert_user"})
        /\ ret[p].status = "err" /\ ret[p].cause = "constraint"
        /\ \E x \in users : x.id # req[p].user.id /\ x.username = req[p].user.username
        /\ Snapshot = pre[p]

\* C3: a read-only operation never commits its transaction and leaves the
\* committed rows unchanged; so does the read that update_user_route starts
\* with.
C3_ReadOnlyNeverCommits ==
    \A p \in Tasks :
        /\ req[p].route \in ReadOnlyRoutes =>
               /\ tx[p].commits = 0
               /\ tx[p].muts = 0
               /\ tx[p].state # "committed"
               /\ tx[p].pending = None
               /\ Snapshot = pre[p]
        /\ (req[p].route = "update_user_route" /\ pc[p] \in {"existing", "begin2"}) =>
               /\ tx[p].commits = 0
               /\ tx[p].state # "committed"
               /\ Snapshot = pre[p]

C3_Witness ==
    \E p \in Tasks :
        /\ AtDone(p, {"login"})
        /\ ret[p].status = "ok"
        /\ tx[p].stmts = 2
        /\ tx[p].state = "rolled_back"
        /\ users # {}

\* C4: a handler hands every mutating mapper a transaction it has just begun,
\* and no statement is issued on a handle that a mapper has consumed.
C4_FreshTransactionPerCall ==
    \A p \in Tasks :
        /\ pc[p] \in {"stmt", "commit", "count", "data", "existing",
                      "by_username", "check_password"} => tx[p].state = "open"
        /\ (pc[p] = "stmt" /\ req[p].route \in MutatingMappers \cup {"update_user_route"}) =>
               tx[p].stmts = 0
        /\ (req[p].route = "update_user_route" /\ pc[p] \in {"stmt", "commit"}) =>
               tx[p].n = 2
        /\ tx[p].state \in {"committed", "rolled_back"} => pc[p] \in {"begin2", "done"}

C4_Witness ==
    \E p \in Tasks :
        /\ req[p].route = "update_user_route"
        /\ pc[p] = "commit"
        /\ tx[p].n = 2 /\ tx[p].muts = 1 /\ tx[p].stmts = 1

EffPage == IF arg.page = None THEN 1 ELSE arg.page[1]
EffSize == IF arg.size = None THEN 10 ELSE arg.size[1]
EffTotal == IF arg.total = None THEN 0 ELSE arg.total[1]

\* C5: with page >= 1 and size >= 1, offset() is (page-1)*size, an unset page
\* counting as 1 and an unset size as 10.
C5_Offset ==
    (out # None /\ out[1].fn = "offset" /\ EffPage >= 1 /\ EffSize >= 1) =>
        /\ ~out[1].panic
        /\ out[1].value = (EffPage - 1) * EffSize

C5_Witness ==
    /\ out # None /\ out[1].fn = "offset"
    /\ arg.page = Some(3) /\ arg.size = None
    /\ out[1].value = 20

ListRoutes == {"get_all_users", "get_all_groups"}

\* the response of a list request that succeeded
Listed(p) == AtDone(p, ListRoutes) /\ ret[p].status = "ok"

\* the offset of the request, as the data query received it
ListOffset(p) == (page(req[p].query) - 1) * size(req[p].query)

\* C7: a list operation on a store no one writes returns at most size rows,
\* and exactly min(size, max(0, total - offset)) of them, total being the
\* one in the pagination block.
C7_ListLength ==
    \A p \in Tasks :
        Listed(p) =>
            LET n == Len(ret[p].value.data)
                total == ret[p].value.pagination[1].total[1]
                sz == size(req[p].query)
            IN  /\ n <= sz
                /\ n = Min(sz, Max(0, total - ListOffset(p)))

\* C8: the total that get_all_users reports is the number of rows that
\* satisfy the filter predicate of its data query.
C8_TotalHonorsFilter ==
    \A p \in Tasks :
        (Listed(p) /\ req[p].route = "get_all_users") =>
            ret[p].value.pagination[1].total[1] =
                Cardinality({r \in users :
                    r.user_group_id = group_id(req[p].query)})

\* the users a list query is to return: everyone when user_group_id is unset
\* (or there is no filter), the members of V when it is Some(V)
Wanted(q) ==
    IF q.filter = None \/ q.filter[1].user_group_id = None THEN users
    ELSE {r \in users : r.user_group_id = q.filter[1].user_group_id}

\* C9: a user list with user_group_id unset returns users with a NULL
\* user_group_id and users with any other; with user_group_id = V it returns
\* only the users of V.
C9_FilterNullSafe ==
    \A p \in Tasks :
        (Listed(p) /\ req[p].route = "get_all_users") =>
            ret[p].value.data =
                LimitOffset(OrderById(Wanted(req[p].query)),
                            size(req[p].query), ListOffset(p))

\* C10: a bulk delete of N ids of which M exist does not fail for the ones
\* that are missing: it returns exactly the M existing rows and commits,
\* after which none of them is found and every other row is as it was.
C10_BulkDelete ==
    \A p \in Tasks :
        AtDone(p, {"delete_users_by_ids"}) =>
            /\ ret[p].status = "err" => ret[p].cause \in {"panic", "connection", "commit"}
            /\ ret[p].status = "ok" =>
                   /\ ret[p].value = {u \in pre[p].users : u.id \in req[p].ids}
                   /\ tx[p].commits = 1
                   /\ \A id \in req[p].ids : get_user_by_id_stmt(users, id) = None
                   /\ users = pre[p].users \ ret[p].value
                   /\ user_groups = pre[p].user_groups

C10_Witness ==
    \E p \in Tasks :
        /\ AtDone(p, {"delete_users_by_ids"})
        /\ ret[p].status = "ok"
        /\ Cardinality(req[p].ids) = 2
        /\ Cardinality(ret[p].value) = 1
        /\ users # {}

UpdateRoutes == {"update_user", "update_user_route", "update_user_group"}

\* the id an update request names
UpdateId(r) ==
    CASE r.route = "update_user" -> r.user.id
      [] r.route = "update_user_route" -> r.id
      [] r.route = "update_user_group" -> r.group.id

\* the table an update request writes, in a snapshot of the store
TableOfUpdate(r, snap) ==
    IF r.route = "update_user_group" THEN snap.user_groups ELSE snap.users

\* C11: an update whose id has no row creates a row (one more row than
\* before, whichever id it is given); an update whose id has a row changes
\* that row, which stays the only one with the id, and leaves the number of
\* rows as it was.  (An update that the store or the pool fails, or that a
\* unique username rejects, is not covered.)
C11_UpsertByAbsence ==
    \A p \in Tasks :
        (/\ AtDone(p, UpdateRoutes)
         /\ ret[p].cause \notin {"panic", "connection", "commit", "constraint"}) =>
            LET before == TableOfUpdate(req[p], pre[p])
                after == TableOfUpdate(req[p], Snapshot)
                id == UpdateId(req[p])
            IN  /\ ret[p].status = "ok"
                /\ (\E x \in before : x.id = id) =>
                       /\ Cardinality(after) = Cardinality(before)
                       /\ Cardinality({x \in after : x.id = id}) = 1
                /\ (~\E x \in before : x.id = id) =>
                       Cardinality(after) = Cardinality(before) + 1

\* the user that a login request names, among the rows when it arrived
LoginUser(p) == {u \in pre[p].users : u.username = req[p].username}

\* C12: a login that the store and the pool serve ends in one of three ways,
\* after reads on the one transaction it began: an unknown username answers
\* 400 after the first read, a known username with another password answers
\* 401 after the second, and a match succeeds with the session holding the
\* user's id and username.
C12_LoginOutcomes ==
    \A p \in Tasks :
        (AtDone(p, {"login"}) /\ ret[p].cause \notin {"panic", "connection"}) =>
            /\ tx[p].n = 1 /\ tx[p].commits = 0
            /\ LoginUser(p) = {} =>
                   /\ ret[p].status = "err" /\ ret[p].value = Some(400)
                   /\ tx[p].stmts = 1
                   /\ session[p] = NoSession
            /\ \A u \in LoginUser(p) :
                   IF u.password_hash = req[p].password
                   THEN /\ ret[p].status = "ok"
                        /\ tx[p].stmts = 2
                        /\ session[p]["user_id"] = Some(u.id)
                        /\ session[p]["username"] = Some(u.username)
                        /\ ret[p].value = session[p]
                   ELSE /\ ret[p].status = "err" /\ ret[p].value = Some(401)
                        /\ tx[p].stmts = 2
                        /\ session[p] = NoSession

C12_Witness ==
    \E p \in Tasks :
        /\ AtDone(p, {"login"})
        /\ ret[p].status = "err" /\ ret[p].value = Some(401)
        /\ \E u \in users : u.username = req[p].username /\ u.id = 2
        /\ session[p] = NoSession

\* the rows of the table that a list request reads
ListRows(p) == Committed(ListTable(req[p].route))

\* C13: a list request for a page after the first whose offset is at or past
\* the number of rows succeeds, with no rows, no next_page and a prev_page;
\* only a failure of the store connection or of the pool makes it an error.
C13_PageBeyondLast ==
    \A p \in Tasks :
        (/\ AtDone(p, ListRoutes)
         /\ ret[p].cause \notin {"panic", "connection"}
         /\ page(req[p].query) > 1
         /\ ListOffset(p) >= Cardinality(ListRows(p))) =>
            /\ ret[p].status = "ok"
            /\ ret[p].value.data = <<>>
            /\ ret[p].value.pagination[1].next_page = None
            /\ ret[p].value.pagination[1].prev_page # None

C13_Witness ==
    \E p \in Tasks :
        /\ Listed(p)
        /\ req[p].query.page = Some(2) /\ req[p].query.size = Some(2)
        /\ Cardinality(ListRows(p)) = 2
        /\ ret[p].value.data = <<>>
        /\ ret[p].value.pagination[1].total = Some(2)

\* a list request with size = 0 or page = 0, once the pool has given it a
\* transaction
ZeroSizeOrPage(p) ==
    /\ req[p].route \in ListRoutes
    /\ tx[p].n = 1
    /\ size(req[p].query) = 0 \/ page(req[p].query) = 0

\* C14: a list request with size = 0 or page = 0 is rejected before any
\* statement reaches the store, or is served with the defaults in place of
\* the zero; it never answers no rows together with a nonzero total, and
\* its offset never underflows (neither a panic nor a wrapped offset).
C14_ZeroSizeOrPage ==
    \A p \in Tasks :
        /\ (ZeroSizeOrPage(p) /\ pc[p] = "data") => ret[p].value.offset >= 0
        /\ (ZeroSizeOrPage(p) /\ pc[p] = "done"
                /\ ret[p].cause # "connection") =>
               /\ ret[p].cause # "panic"
               /\ ret[p].status = "err" => tx[p].stmts = 0
               /\ ret[p].status = "ok" =>
                      LET pg == ret[p].value.pagination[1]
                          q == req[p].query
                      IN  /\ pg.page = Some(IF page(q) = 0 THEN 1 ELSE page(q))
                          /\ pg.size = Some(IF size(q) = 0 THEN 10 ELSE size(q))
                          /\ ~(ret[p].value.data = <<>> /\ pg.total # Some(0))

\* the configured collection path under which a list handler is served
CollectionPath(route) ==
    IF route = "get_all_users" THEN "routes.users" ELSE "routes.user_groups"

\* the links that a pagination block carries
Links(pg) == {l \in {pg.prev_page, pg.next_page} : l # None}

\* C15: every prev/next link in the answer of a list operation is made of
\* the configured base URL and port, the collection path of the entity that
\* was listed, and a page and a size parameter.
C15_LinkOfListedEntity ==
    \A p \in Tasks :
        Listed(p) =>
            \A l \in Links(ret[p].value.pagination[1]) :
                /\ l[1].base = "application.base_url"
                /\ l[1].path = CollectionPath(req[p].route)
                /\ DOMAIN l[1] = {"base", "port", "path", "page", "size"}

\* C16: a link that Pagination::new gives addresses the adjacent page with
\* the size of the request: prev_page carries page - 1, next_page carries
\* page + 1, both carry size (an unset page counting as 1, an unset size as
\* 10).
C16_LinksAdjacent ==
    (out # None /\ out[1].fn = "Pagination::new") =>
        LET pg == out[1].value
        IN  /\ pg.prev_page # None =>
                   /\ pg.prev_page[1].page = EffPage - 1
                   /\ pg.prev_page[1].size = EffSize
            /\ pg.next_page # None =>
                   /\ pg.next_page[1].page = EffPage + 1
                   /\ pg.next_page[1].size = EffSize

C16_Witness ==
    /\ out # None /\ out[1].fn = "Pagination::new"
    /\ arg = [page |-> Some(2), size |-> Some(3), total |-> Some(7)]
    /\ out[1].value.prev_page # None
    /\ out[1].value.next_page # None
    /\ out[1].value.next_page[1].page = 3

\* the position of a name in the alphabetical order of the names of its kind
NameRank(name) ==
    CASE name \in {"alice", "Admins"} -> 1
      [] name \in {"bob", "Staff"} -> 2

\* row a comes before row b in the order that query q asks for: ascending
\* primary key, or the named sort field and then the primary key
ComesBefore(a, b, q) ==
    IF q.sort = None THEN a.id < b.id
    ELSE LET ra == NameRank(a[q.sort[1]])
             rb == NameRank(b[q.sort[1]])
         IN  ra < rb \/ (ra = rb /\ a.id < b.id)

\* C17: the rows a list operation returns are in ascending primary-key order
\* when the query names no sort field, and in the order of the named field,
\* ties broken by the primary key, when it names one.
C17_ListOrder ==
    \A p \in Tasks :
        Listed(p) =>
            LET data == ret[p].value.data
            IN  \A i, j \in 1..Len(data) :
                    i < j => ComesBefore(data[i], data[j], req[p].query)

\* task p takes the step from position a to position b
Steps(p, a, b) == pc[p] = a /\ pc'[p] = b

\* C18: an update on a row that exists is never turned down (it fails only
\* when the connection, the commit or a unique username fails it), whatever
\* another transaction has done to the row since the request arrived; and
\* when an update commits, the stored row is the one this update wrote, so
\* of two concurrent updates of a row the later one gives the final content.
C18_LastWriterWins ==
    [][\A p \in Tasks :
          req[p].route \in UpdateRoutes =>
              /\ (/\ Steps(p, "stmt", "done")
                  /\ \E x \in TableOfUpdate(req[p], Snapshot) :
                         x.id = UpdateId(req[p]))
                     => ret'[p].cause \in {"connection", "constraint"}
              /\ (Steps(p, "commit", "done") /\ ret'[p].status = "ok") =>
                     /\ ret'[p].value \in TableOfUpdate(req[p], Snapshot)'
                     /\ ret'[p].value.id = UpdateId(req[p])
      ]_vars

C18_Witness ==
    /\ Tasks = {1, 2}
    /\ \A p \in Tasks : AtDone(p, {"update_user_group"}) /\ ret[p].status = "ok"
    /\ pre[1] = pre[2]
    /\ req[1].group.id = req[2].group.id
    /\ ret[1].value # ret[2].value
    /\ ret[2].value \in user_groups
    /\ ret[1].value \notin user_groups

\* the answer of the list request of task p has a total and a page that
\* disagree
TotalAndPageDisagree(p) ==
    /\ Listed(p)
    /\ Len(ret[p].value.data) #
           Min(size(req[p].query),
               Max(0, ret[p].value.pagination[1].total[1] - ListOffset(p)))

\* C19: the data query of a group list reads the rows committed when it runs,
\* while the total it answers with is the count taken by the earlier count
\* query.  It succeeds whatever was committed in between; and the total and
\* the page disagree only when an insert or a delete committed in between
\* has changed the number of rows.
C19_TransientInconsistency ==
    [][\A p \in Tasks :
          (/\ Steps(p, "data", "done")
           /\ req[p].route = "get_all_groups"
           /\ ret'[p].cause # "connection") =>
              /\ ret'[p].status = "ok"
              /\ ret'[p].value.pagination[1].total = ret[p].value.total
              /\ Len(ret'[p].value.data) =
                     Min(size(req[p].query),
                         Max(0, Cardinality(user_groups) - ListOffset(p)))
              /\ TotalAndPageDisagree(p)' =>
                     ret[p].value.total # Some(Cardinality(user_groups))
      ]_vars

C19_Witness ==
    \E p \in Tasks :
        /\ TotalAndPageDisagree(p)
        /\ req[p].route = "get_all_groups"
        /\ ret[p].value.pagination[1].total = Some(1)
        /\ ret[p].value.data = <<>>
        /\ user_groups = {}

\* C20: get_tweet_by_id on an id that no row has (because none ever had it,
\* or because delete_tweet_by_id removed it) succeeds with None; it fails
\* only when the connection or the pool fails.
C20_GetTweetNotFound ==
    \A p \in Tasks :
        (/\ AtDone(p, {"get_tweet_by_id"})
         /\ ret[p].cause \notin {"panic", "connection"}
         /\ ~\E t \in tweets : t.id = req[p].id) =>
            /\ ret[p].status = "ok"
            /\ ret[p].value = None

\* the user id that a tweet list request is restricted to, if any
TweetsOf(r) ==
    IF r.route = "get_tweets_by_user_id" THEN Some(r.user_id)
    ELSE IF r.query.filter = None THEN None
    ELSE r.query.filter[1].user_id

\* C21: a tweet list restricted to user id U answers only tweets of U, and
\* all the tweets of U when there are at most size of them (the request being
\* for the first page).
C21_TweetsOfUser ==
    \A p \in Tasks :
        (/\ AtDone(p, {"get_all_tweets", "get_tweets_by_user_id"})
         /\ ret[p].status = "ok"
         /\ TweetsOf(req[p]) # None) =>
            LET U == TweetsOf(req[p])[1]
                mine == {t \in tweets : t.user_id = U}
                data == ret[p].value.data
            IN  /\ \A i \in 1..Len(data) : data[i].user_id = U
                /\ Cardinality(mine) <= size(req[p].query) =>
                       {data[i] : i \in 1..Len(data)} = mine

\* the session holds the entries of a logged-in user
LoggedIn(s) ==
    s["username"] # None \/ s["user_id"] # None

\* C22: a logout request of a session that a successful login filled purges
\* the session, so that it holds neither username nor user_id afterwards,
\* and the "no user found in session" answer is given only to a session in
\* which nobody is logged in.
C22_LogoutPurges ==
    [][\A p \in Tasks :
          (Steps(p, "session", "done") /\ req[p].route = "logout") =>
              /\ LoggedIn(session[p]) =>
                     /\ ~LoggedIn(session'[p])
                     /\ ret'[p].value.message = None
              /\ ret'[p].value.message # None => ~LoggedIn(session[p])]_vars

\* C26: check_login answers true exactly when the session holds the username
\* entry of a login, and false for a session that holds none.
C26_CheckLogin ==
    \A p \in Tasks :
        AtDone(p, {"check_login"}) =>
            (ret[p].value <=> session[p]["username"] # None)

\* C27: the session changes only in a login request whose username is stored
\* with the password the request gives, and then to that user's username and
\* id; a login answered 401 or 400 leaves the session as it was.  So a
\* session that holds entries holds those of a stored user.
C27_SessionOnlyByLogin ==
    [][\A p \in Tasks :
          /\ session'[p] # session[p] =>
                 /\ req[p].route = "login"
                 /\ ret'[p].status = "ok"
                 /\ \E u \in users :
                        /\ u.username = req[p].username
                        /\ u.password_hash = req[p].password
                        /\ session'[p] = [session[p] EXCEPT
                                             !["username"] = Some(u.username),
                                             !["user_id"] = Some(u.id)]
          /\ (pc'[p] = "done" /\ pc[p] # "done" /\ req[p].route = "login"
                /\ ret'[p].status = "err") => session'[p] = session[p]]_vars
\* a login was refused in a session that an earlier login had filled
C27_Witness ==
    \E p \in Tasks :
        /\ AtDone(p, {"login"})
        /\ ret[p].status = "err"
        /\ ret[p].value = Some(401)
        /\ session[p]["username"] # None
        /\ session[p]["username"] # Some(req[p].username)

\* the row of user id in a users table (an existing id has exactly one)
UserRow(rows, id) == CHOOSE u \in rows : u.id = id

\* C23: when update_user_route succeeds on an existing user with the password
\* omitted, the stored row of that id has the username and user_group_id of
\* the body and the id, password_hash and created_at it had before; no other
\* row changes; and a login with the new username and the old password finds
\* the user and its password correct.
C23_UpdateKeepsPassword ==
    \A p \in Tasks :
        (/\ AtDone(p, {"update_user_route"})
         /\ ret[p].status = "ok"
         /\ req[p].password = None
         /\ \E u \in pre[p].users : u.id = req[p].id) =>
            LET old == UserRow(pre[p].users, req[p].id)
                new == [id |-> old.id, username |-> req[p].username,
                        password_hash |-> old.password_hash,
                        created_at |-> old.created_at,
                        user_group_id |-> req[p].user_group_id]
                named == {u \in users : u.username = req[p].username}
            IN  /\ users = (pre[p].users \ {old}) \cup {new}
                /\ UserRow(users, req[p].id).created_at = old.created_at
                /\ UserRow(users, req[p].id).password_hash = old.password_hash
                /\ ret[p].value = new
                /\ named = {new}
                /\ check_user_password_correct_stmt(users, new.id, old.password_hash)
\* such an update has renamed a user and changed its group, and the user
\* was created at the later instant
C23_Witness ==
    \E p \in Tasks :
        /\ AtDone(p, {"update_user_route"})
        /\ ret[p].status = "ok"
        /\ req[p].password = None
        /\ \E u \in pre[p].users :
               /\ u.id = req[p].id
               /\ u.username # req[p].username
               /\ u.user_group_id # req[p].user_group_id
               /\ u.created_at = Some(2)

\* the id and the username of the user are not stored
FreeIdAndName(rows, u) == ~\E r \in rows : r.id = u.id \/ r.username = u.username

\* insert_user has answered the user it was given (its id, username,
\* password_hash and user_group_id), and that answer is the one stored row
\* of the id and the one of the username
InsertedAsGiven(p) ==
    /\ ret[p].status = "ok"
    /\ ret[p].value.id = req[p].user.id
    /\ ret[p].value.username = req[p].user.username
    /\ ret[p].value.password_hash = req[p].user.password_hash
    /\ ret[p].value.user_group_id = req[p].user.user_group_id
    /\ {u \in users : u.id = req[p].user.id} = {ret[p].value}
    /\ {u \in users : u.username = req[p].user.username} = {ret[p].value}

\* get_user_by_id answers the stored row of the id it is asked for, and
\* get_user_by_username hands login the stored row of the username
GetsStoredRow(p) ==
    /\ (AtDone(p, {"get_user_by_id"}) /\ ret[p].status = "ok") =>
           /\ \A u \in users : u.id = req[p].id => ret[p].value = Some(u)
           /\ ret[p].value # None => ret[p].value[1] \in users
    /\ (pc[p] = "check_password" /\ req[p].route = "login") =>
           /\ ret[p].value[1] \in users
           /\ ret[p].value[1].username = req[p].username

\* C24, as stated: insert_user of every user whose id and username are not
\* stored succeeds (unless the pool, the connection or the commit fails) and
\* returns a row with the id, username and password_hash it was given, which
\* get_user_by_id and get_user_by_username then return.
C24_InsertThenGet ==
    \A p \in Tasks :
        /\ (/\ AtDone(p, {"insert_user"})
            /\ FreeIdAndName(pre[p].users, req[p].user)
            /\ ret[p].cause \notin {"panic", "connection", "commit"}) =>
               InsertedAsGiven(p)
        /\ GetsStoredRow(p)

\* C24, amended: the same for every user whose id and username are not
\* stored and whose user_group_id is unset or names a stored group.
C24_InsertThenGetOfGroup ==
    \A p \in Tasks :
        /\ (/\ AtDone(p, {"insert_user"})
            /\ ~UsersViolation(pre[p].users, pre[p].user_groups, req[p].user)
            /\ ret[p].cause \notin {"panic", "connection", "commit"}) =>
               InsertedAsGiven(p)
        /\ GetsStoredRow(p)
\* a second user was inserted into a stored group, and got a created_at that
\* the request did not carry
C24_Witness ==
    \E p \in Tasks :
        /\ AtDone(p, {"insert_user"})
        /\ ret[p].status = "ok"
        /\ req[p].user.user_group_id # None
        /\ ret[p].value.created_at # req[p].user.created_at
        /\ Cardinality(users) = 2

\* the rows of user_permissions that a by-id request names
PermissionsOf(r, rows) ==
    IF r.route \in {"delete_user_permissions_by_user_id",
                    "get_user_permissions_by_user_id"}
    THEN {x \in rows : x.user_id = r.id}
    ELSE {x \in rows : x.permission_id = r.id}

\* C25: delete_user_permissions_by_user_id(U) that answers Ok has committed
\* once, answers exactly the rows of user U stored when it was called, and
\* leaves the table without them and with every other row; it fails only
\* when the pool, the connection or the commit does, and then the table is
\* as before.  A get_user_permissions_by_user_id(U) answers the stored rows
\* of U, so it is empty after the deletion.  The same holds by permission
\* id.
C25_DeleteUserPermissions ==
    \A p \in Tasks :
        /\ AtDone(p, {"delete_user_permissions_by_user_id",
                      "delete_user_permissions_by_permission_id"}) =>
               LET mine == PermissionsOf(req[p], pre[p].user_permissions)
               IN  /\ ret[p].cause \notin {"panic", "connection", "commit"} =>
                          ret[p].status = "ok"
                   /\ ret[p].status = "ok" =>
                          /\ tx[p].commits = 1
                          /\ ret[p].value = mine
                          /\ user_permissions = pre[p].user_permissions \ mine
                          /\ PermissionsOf(req[p], user_permissions) = {}
                   /\ ret[p].status = "err" =>
                          user_permissions = pre[p].user_permissions
        /\ (/\ AtDone(p, {"get_user_permissions_by_user_id",
                          "get_user_permissions_by_permission_id"})
            /\ ret[p].status = "ok") =>
               ret[p].value = PermissionsOf(req[p], user_permissions)
\* a deletion has removed the rows of one user and kept a row of another
C25_Witness ==
    \E p \in Tasks :
        /\ AtDone(p, {"delete_user_permissions_by_user_id"})
        /\ ret[p].status = "ok"
        /\ Cardinality(ret[p].value) = 2
        /\ user_permissions # {}

\* C28: every Pagination that Pagination::new or Pagination::default_p
\* constructs has prev_page present exactly when its page is above 1 and
\* next_page present exactly when its page times its size is below its
\* total.
C28_PaginationInvariant ==
    (out # None /\ out[1].fn \in {"Pagination::new", "Pagination::default_p"}) =>
        LET v == out[1].value
        IN  /\ (v.prev_page # None) = (v.page[1] > 1)
            /\ (v.next_page # None) = (v.page[1] * v.size[1] < v.total[1])

\* C29: the commit of an update_user_route whose body has no password leaves
\* the password_hash of the user as the store held it just before, whatever
\* other requests committed since the handler read the existing user; so a
\* password that another request wrote in between stays.
C29_RouteKeepsPassword ==
    [][\A p \in Tasks :
          (/\ Steps(p, "commit", "done")
           /\ req[p].route = "update_user_route"
           /\ req[p].password = None
           /\ ret'[p].status = "ok") =>
              \A u \in users :
                  u.id = req[p].id =>
                      \E n \in users' :
                          n.id = u.id /\ n.password_hash = u.password_hash]_vars

\* the list mappers whose data query has no WHERE clause
UnfilteredLists == {"get_all_groups", "get_all_tweets", "get_all_user_permissions"}

\* the place of row r among rows in ascending order of the primary key: id,
\* or (user_id, permission_id) for user_permissions
KeyRank(r, rows, route) ==
    IF route = "get_all_user_permissions"
    THEN Cardinality({x \in rows :
             \/ x.user_id < r.user_id
             \/ x.user_id = r.user_id /\ x.permission_id <= r.permission_id})
    ELSE Cardinality({x \in rows : x.id <= r.id})

\* C30: on a store that no one writes during the request, an unfiltered list
\* request with size >= 1 and a page from 1 to ceil(total/size) answers the
\* stored rows whose places in ascending primary-key order are
\* (page-1)*size + 1 up to page*size (or up to the last row), in that order.
\* So the pages 1..ceil(total/size) share no row, page after page they give
\* the stored rows in ascending primary-key order, and no row is left out.
C30_PagesPartition ==
    \A p \in Tasks :
        (/\ AtDone(p, UnfilteredLists)
         /\ ret[p].status = "ok"
         /\ size(req[p].query) >= 1
         /\ page(req[p].query) >= 1) =>
            LET rows == Committed(ListTable(req[p].route))
                total == Cardinality(rows)
                sz == size(req[p].query)
                pg == page(req[p].query)
                data == ret[p].value.data
            IN  /\ ret[p].value.pagination[1].total = Some(total)
                /\ (pg - 1) * sz < total =>
                       /\ Len(data) = Min(sz, total - (pg - 1) * sz)
                       /\ \A i \in 1..Len(data) :
                              /\ data[i] \in rows
                              /\ KeyRank(data[i], rows, req[p].route)
                                     = (pg - 1) * sz + i
\* the second page of size 2 of four stored rows: its rows are the third and
\* the fourth, of another user than the rows of the first page
C30_Witness ==
    \E p \in Tasks :
        /\ AtDone(p, {"get_all_user_permissions"})
        /\ ret[p].status = "ok"
        /\ size(req[p].query) = 2 /\ page(req[p].query) = 2
        /\ Len(ret[p].value.data) = 2
        /\ ret[p].value.data[1].permission_id < ret[p].value.data[2].permission_id
====
